---- MODULE Spec2Model ----
(***************************************************************************)
(* A model of src/lru-cache.js: the LRUCache object (an index `_store`     *)
(* plus an intrusive doubly linked recency list threaded through the       *)
(* CacheEntry objects by `prev` / `next`).                                 *)
(*                                                                         *)
(* Objects are modelled as a heap: every CacheEntry is a node id whose    *)
(* record holds the four fields the constructor sets.  `_store` is a plain *)
(* JavaScript object ({}), so a lookup `this._store[key]` sees the own     *)
(* properties the cache has stored AND the properties every plain object   *)
(* inherits from Object.prototype.  One such inherited property is        *)
(* modelled: the key ProtoKey ("toString"), whose lookup yields the        *)
(* function object Proto.  Proto is an ordinary extensible object: the     *)
(* code reads and writes its value / prev / next like those of an entry.   *)
(***************************************************************************)
EXTENDS Integers, Sequences, FiniteSets

\* ------------------------------------------------------------------ bounds
\* Own keys and capacities of the runs that pass ordinary keys only.
MaxKeys == 3
MaxLimit == 3
\* Own keys and capacities of the runs that pass any key.
MaxKeysAny == 2
MaxLimitAny == 2
MaxVal == 2
\* Entry objects that exist at one time.
MaxNodes == 4
\* _size is a JavaScript number and the code never bounds it from below:
\* the model follows it down to -MaxDebt.
MaxDebt == 1
\* How many calls of a run pass a key that names an inherited property.
MaxInherited == 1
MaxInheritedDeep == 2
MaxLimitDeep == 1
MaxValDeep == 1
\* Own keys, capacities and values of the runs whose caller keeps what find
\* returned.
MaxKeysKept == 2
MaxLimitKept == 2
MaxValKept == 1
\* Own keys, capacities and values of the runs whose caller records the keys
\* put since each key's most recent use.
MaxKeysUsed == 3
MaxLimitUsed == 2
MaxValUsed == 1
MaxInheritedUsed == 1
\* Own keys and capacities (0 down to -MaxNegLimit) of the runs on a cache of
\* no capacity.
MaxKeysZero == 2
MaxNegLimit == 1
MaxInheritedZero == 1

\* --------------------------------------------------------- the value space
\* JavaScript's undefined: an absent reference, value or key.
undefined == 0
\* The object that `{}["toString"]` yields: Object.prototype.toString.
Proto == -1

OwnKeys == 1..MaxKeys
\* The string key "toString", a name every plain object inherits.
ProtoKey == MaxKeys + 1
Keys == OwnKeys \cup {ProtoKey}
Values == 1..MaxVal
Nodes == 1..MaxNodes
Objects == Nodes \cup {Proto}

VARIABLES _size, _cacheLimit, _first, _last, _store, heap, call, ret, kept, inherited, uses,
          since, scope

vars ==
    <<_size, _cacheLimit, _first, _last, _store, heap, call, ret, kept, inherited, uses, since,
      scope>>

\* An object none of whose four fields is set (a function object has no own
\* or inherited key, value, prev or next: each reads as undefined).
Blank == [key |-> undefined, value |-> undefined, prev |-> undefined, next |-> undefined]

\* new CacheEntry(key, value, prev, next)
CacheEntry(key, value, prev, next) ==
    [key |-> key, value |-> value, prev |-> prev, next |-> next]

\* The cache object and the heap it points into, as one record: the `this`
\* the methods below take and return.
This ==
    [_size |-> _size, _cacheLimit |-> _cacheLimit, _first |-> _first,
     _last |-> _last, _store |-> _store, heap |-> heap]

\* new LRUCache(cacheLimit)
LRUCache(cacheLimit) ==
    [_size |-> 0, _cacheLimit |-> cacheLimit, _first |-> undefined,
     _last |-> undefined, _store |-> [k \in OwnKeys |-> undefined],
     heap |-> [n \in Objects |-> Blank]]

\* this._store[key]: an own property if the cache stored one, else what the
\* plain object inherits, else undefined.
Lookup(c, key) ==
    IF key \in OwnKeys THEN c._store[key]
    ELSE IF key = ProtoKey THEN Proto
    ELSE undefined

\* delete this._store[key]: removes an own property; a name that is no own
\* property (undefined among them, the key of Proto) removes nothing.
Delete(store, key) ==
    IF key \in OwnKeys THEN [store EXCEPT ![key] = undefined] ELSE store

\* Return values.  JavaScript returns undefined, a stored value, a reference
\* to an entry object, an array of {key, value} records, a string or an
\* array of keys.
RetUndefined == [kind |-> "undefined"]
RetValue(v) == IF v = undefined THEN RetUndefined ELSE [kind |-> "value", value |-> v]
RetEntry(e) == IF e = undefined THEN RetUndefined ELSE [kind |-> "entry", ref |-> e]

\* ---------------------------------------------------------------- methods
_moveToFront(c, entry) ==
    IF entry = c._first THEN c
    ELSE
        LET h0 == c.heap
            n == h0[entry].next
            last1 == IF n # undefined /\ entry = c._last THEN n ELSE c._last
            h1 == IF n # undefined
                  THEN [h0 EXCEPT ![n].prev = h0[entry].prev] ELSE h0
            p == h1[entry].prev
            h2 == IF p # undefined
                  THEN [h1 EXCEPT ![p].next = h1[entry].next] ELSE h1
            h3 == [h2 EXCEPT ![entry].next = undefined]
            h4 == [h3 EXCEPT ![entry].prev = c._first]
            h5 == IF c._first # undefined
                  THEN [h4 EXCEPT ![c._first].next = entry] ELSE h4
        IN [c EXCEPT !._last = last1, !.heap = h5, !._first = entry]

_getEntry(c, key) ==
    LET entry == Lookup(c, key)
    IN [this |-> IF entry # undefined THEN _moveToFront(c, entry) ELSE c,
        entry |-> entry]

purge(c) ==
    LET entry == c._last
    IN IF entry # undefined
       THEN LET n == c.heap[entry].next
                c1 == IF n # undefined
                      THEN [c EXCEPT !._last = n, !.heap[n].prev = undefined]
                      ELSE [c EXCEPT !._last = undefined, !._first = undefined]
                c2 == [c1 EXCEPT !.heap[entry].next = undefined,
                                 !.heap[entry].prev = undefined]
                c3 == [c2 EXCEPT !._store = Delete(c2._store, c2.heap[entry].key)]
            IN [this |-> [c3 EXCEPT !._size = c3._size - 1], ret |-> RetEntry(entry)]
       ELSE [this |-> c, ret |-> RetEntry(entry)]

\* `fresh` is the object that `new CacheEntry` allocates.
put(c, key, value, fresh) ==
    LET entry == Lookup(c, key)
    IN IF entry # undefined
       THEN [this |-> _moveToFront([c EXCEPT !.heap[entry].value = value], entry),
             ret |-> RetUndefined]
       ELSE LET c1 == [c EXCEPT !._store[key] = fresh,
                                !.heap[fresh] = CacheEntry(key, value, undefined, undefined)]
                c2 == IF c1._first # undefined
                      THEN [c1 EXCEPT !.heap[c1._first].next = fresh,
                                      !.heap[fresh].prev = c1._first]
                      ELSE [c1 EXCEPT !._last = fresh]
                c3 == [c2 EXCEPT !._first = fresh, !._size = c2._size + 1]
            IN IF c3._size > c3._cacheLimit
               THEN purge(c3)
               ELSE [this |-> c3, ret |-> RetUndefined]

get(c, key) ==
    LET r == _getEntry(c, key)
    IN [this |-> r.this,
        ret |-> IF r.entry # undefined
                THEN RetValue(r.this.heap[r.entry].value) ELSE RetUndefined]

\* find that registers the use, as get does (this._getEntry(key)).
find_registersUse(c, key) ==
    [this |-> _getEntry(c, key).this, ret |-> RetEntry(Lookup(c, key))]

\* find that returns the entry's value, as get does.
find_returnsValue(c, key) ==
    [this |-> c,
     ret |-> IF Lookup(c, key) # undefined
             THEN RetValue(c.heap[Lookup(c, key)].value) ELSE RetUndefined]

find(c, key) ==
    [this |-> c, ret |-> RetEntry(Lookup(c, key))]

set(c, key, value) ==
    LET r == _getEntry(c, key)
    IN IF r.entry # undefined
       THEN [this |-> [r.this EXCEPT !.heap[r.entry].value = value],
             ret |-> RetValue(r.this.heap[r.entry].value)]
       ELSE [this |-> r.this, ret |-> RetUndefined]

remove(c, key) ==
    LET entry == Lookup(c, key)
    IN IF entry = undefined
       THEN [this |-> c, ret |-> RetUndefined]
       ELSE LET c1 == [c EXCEPT !._store = Delete(c._store, c.heap[entry].key)]
                n == c1.heap[entry].next
                p == c1.heap[entry].prev
                c2 == IF n # undefined /\ p # undefined
                      THEN LET a == [c1 EXCEPT !.heap[p].next = n]
                           IN [a EXCEPT !.heap[a.heap[entry].next].prev = a.heap[entry].prev]
                      ELSE IF n # undefined
                      THEN [c1 EXCEPT !.heap[n].prev = undefined, !._last = n]
                      ELSE IF p # undefined
                      THEN [c1 EXCEPT !.heap[p].next = undefined, !._first = p]
                      ELSE [c1 EXCEPT !._last = undefined, !._first = undefined]
                c3 == [c2 EXCEPT !._size = c2._size - 1]
            IN [this |-> c3, ret |-> RetValue(c3.heap[entry].value)]

removeAll(c) ==
    [this |-> [c EXCEPT !._last = undefined, !._first = undefined, !._size = 0,
                        !._store = [k \in OwnKeys |-> undefined]],
     ret |-> RetUndefined]

\* The nodes visited from `e` along next, at most `fuel` of them.
RECURSIVE Walk(_, _, _)
Walk(h, e, fuel) ==
    IF e = undefined \/ fuel = 0 THEN <<>>
    ELSE <<e>> \o Walk(h, h[e].next, fuel - 1)

\* `while (entry) { ...; entry = entry.next; }` from this._last: the loop
\* ends iff it meets an undefined next within as many steps as there are
\* objects; otherwise it has entered a cycle and never ends.
Loops(c) == Len(Walk(c.heap, c._last, Cardinality(Objects) + 1)) > Cardinality(Objects)

toJSON(c) ==
    LET w == Walk(c.heap, c._last, Cardinality(Objects))
    IN [this |-> c,
        ret |-> IF c._size < 0 THEN [kind |-> "RangeError"]
                ELSE IF Loops(c) THEN [kind |-> "loops"]
                ELSE [kind |-> "array",
                      items |-> [i \in 1..Len(w) |->
                                    [key |-> c.heap[w[i]].key, value |-> c.heap[w[i]].value]],
                      length |-> IF c._size > Len(w) THEN c._size ELSE Len(w)]]

Digit(n) == <<"0", "1", "2", "3", "4", "5", "6", "7", "8", "9">>[n + 1]

\* String(x) for a key or a value.
String(x) == IF x = undefined THEN "undefined" ELSE Digit(x)

RECURSIVE Join(_, _)
Join(h, w) ==
    IF w = <<>> THEN ""
    ELSE String(h[Head(w)].key) \o ":" \o String(h[Head(w)].value)
         \o (IF Tail(w) # <<>> THEN " < " ELSE "") \o Join(h, Tail(w))

toString(c) ==
    [this |-> c,
     ret |-> IF Loops(c) THEN [kind |-> "loops"]
             ELSE [kind |-> "string",
                   str |-> Join(c.heap, Walk(c.heap, c._last, Cardinality(Objects)))]]

\* Object.keys(this._store): the own property names, here as a set.
keys(c) ==
    [this |-> c, ret |-> [kind |-> "keys", keys |-> {k \in OwnKeys : c._store[k] # undefined}]]

\* ------------------------------------------------------------ object life
\* The objects reachable from `S` through prev / next.
RECURSIVE Reach(_, _)
Reach(h, S) ==
    LET S0 == S \ {undefined}
        T == (S0 \cup {h[n].prev : n \in S0} \cup {h[n].next : n \in S0}) \ {undefined}
    IN IF T = S0 THEN T ELSE Reach(h, T)

\* What the cache and Object.prototype refer to.
Roots(c) ==
    {c._first, c._last, Proto} \cup {c._store[k] : k \in OwnKeys}

\* The entry objects nothing refers to any more (`k`: the reference the
\* caller keeps).  An object that is unreachable cannot be observed: its id is
\* free for the next `new CacheEntry`, and its record is reset.
Free(c, k) == Nodes \ Reach(c.heap, Roots(c) \cup {k})

Fresh == IF Free(This, kept) = {} THEN undefined
         ELSE CHOOSE n \in Free(This, kept) : \A m \in Free(This, kept) : n <= m

Collect(c, k, r) ==
    LET live == Reach(c.heap, Roots(c) \cup {k} \cup (IF r.kind = "entry" THEN {r.ref} ELSE {}))
    IN [n \in Objects |-> IF n \in live THEN c.heap[n] ELSE Blank]

\* ---------------------------------------------------------------- actions
\* A call that has not returned never returns: nothing follows it.
Running == ret.kind # "loops"

\* Where the entry of `key` stands in the list when a call is made.
Position(key) ==
    IF key \notin OwnKeys \/ _store[key] = undefined THEN "absent"
    ELSE LET e == heap[_store[key]]
         IN IF e.prev = undefined /\ e.next = undefined THEN "only"
            ELSE IF e.next = undefined THEN "head"
            ELSE IF e.prev = undefined THEN "tail"
            ELSE "interior"

\* The call just made: the method, the key passed (if any) and where that
\* key's entry stood.
Call(name, key) == [name |-> name, key |-> key, at |-> Position(key)]

\* A run is of one of six scopes, which bound what it draws from.  "own" runs
\* pass ordinary keys only (MaxKeys of them, capacities up to MaxLimit).  "any"
\* runs pass any key, ordinary (MaxKeysAny of them) or inherited (at most
\* MaxInherited times), to caches of capacities up to MaxLimitAny.  "deep" runs
\* pass an inherited key up to MaxInheritedDeep times, to caches of capacities
\* up to MaxLimitDeep, with values up to MaxValDeep, and call only the methods
\* DeepCalls.  "kept" runs pass ordinary keys only (MaxKeysKept of them) to
\* caches of capacities up to MaxLimitKept, with values up to MaxValKept, call
\* only the methods KeptCalls, and their caller may keep the entry that find
\* returned while it makes later calls.  "used" runs pass any key, ordinary
\* (MaxKeysUsed of them) or inherited (at most MaxInheritedUsed times), to
\* caches of capacities up to MaxLimitUsed, with values up to MaxValUsed, call
\* only the methods UsedCalls, and their caller records the keys put since
\* each key's most recent use.  "zero" runs pass any key, ordinary
\* (MaxKeysZero of them) or inherited (at most MaxInheritedZero times), to
\* caches of the capacities 0 down to -MaxNegLimit.
ScopeKeys ==
    IF scope = "own" THEN OwnKeys
    ELSE IF scope = "kept" THEN 1..MaxKeysKept
    ELSE IF scope = "used" THEN (1..MaxKeysUsed) \cup {ProtoKey}
    ELSE IF scope = "zero" THEN (1..MaxKeysZero) \cup {ProtoKey}
    ELSE (1..MaxKeysAny) \cup {ProtoKey}

ScopeValues ==
    IF scope = "deep" THEN 1..MaxValDeep
    ELSE IF scope = "kept" THEN 1..MaxValKept
    ELSE IF scope = "used" THEN 1..MaxValUsed
    ELSE Values

ScopeInherited ==
    IF scope \in {"own", "kept"} THEN 0
    ELSE IF scope = "any" THEN MaxInherited
    ELSE IF scope = "used" THEN MaxInheritedUsed
    ELSE IF scope = "zero" THEN MaxInheritedZero
    ELSE MaxInheritedDeep

DeepCalls == {"put", "get", "remove", "removeAll"}

KeptCalls == {"put", "get", "find", "remove", "removeAll"}

UsedCalls == {"put", "get", "remove"}

\* The caller calls the method `name` with `key` (if it takes one): one more
\* call with an inherited name, if `key` is one.
Makes(name, key) ==
    /\ Running
    /\ scope = "deep" => name \in DeepCalls
    /\ scope = "kept" => name \in KeptCalls
    /\ scope = "used" => name \in UsedCalls
    /\ key = ProtoKey => inherited < ScopeInherited
    /\ call' = Call(name, key)
    /\ inherited' = IF key = ProtoKey THEN inherited + 1 ELSE inherited
    /\ scope' = scope

\* Keys(): the keys the cache holds.
Held(c) == {k \in OwnKeys : c._store[k] # undefined}

\* A sequence without the element x.
Without(s, x) == SelectSeq(s, LAMBDA y : y # x)

\* The caller's record of its own calls: the keys in the order of their most
\* recent use, oldest first.  A use of `key` moves it to the end.
Use(key) == Append(Without(uses, key), key)

\* The caller's second record, kept in the "used" runs until they pass an
\* inherited key: for each held key that has been used (put, get hit, set hit)
\* with no remove of it, purge or removeAll since, the keys put after its most
\* recent use.
Untracked == [on |-> FALSE, put |-> {}]

\* That record after the call `cl`, which has left the cache as `c`.
Track(cl, c) ==
    IF scope # "used" THEN since
    ELSE IF inherited' > 0 THEN [k \in OwnKeys |-> Untracked]
    ELSE [k \in OwnKeys |->
            IF k \notin Held(c) \/ cl.name \in {"purge", "removeAll"} THEN Untracked
            ELSE IF k = cl.key /\ (cl.name = "put" \/ (cl.name \in {"get", "set"} /\ cl.at # "absent"))
            THEN [on |-> TRUE, put |-> {}]
            ELSE IF cl.name = "put" /\ since[k].on
            THEN [on |-> TRUE, put |-> since[k].put \cup {cl.key}]
            ELSE since[k]]

\* The state after a method has returned `r`, the caller keeps `k` and its
\* record of uses is `u` (of which only the held keys matter from here on).
Return(r, k, u) ==
    /\ r.this._size >= -MaxDebt
    /\ _size' = r.this._size
    /\ _cacheLimit' = r.this._cacheLimit
    /\ _first' = r.this._first
    /\ _last' = r.this._last
    /\ _store' = r.this._store
    /\ heap' = Collect(r.this, k, r.ret)
    /\ ret' = r.ret
    /\ kept' = k
    /\ uses' = SelectSeq(u, LAMBDA x : x \in Held(r.this))
    /\ since' = Track(call', r.this)

\* The state after `new LRUCache(cacheLimit)`, cacheLimit in `limits`.
ConstructedIn(limits) ==
    /\ \E cacheLimit \in limits :
          /\ _size = LRUCache(cacheLimit)._size
          /\ _cacheLimit = LRUCache(cacheLimit)._cacheLimit
          /\ _first = LRUCache(cacheLimit)._first
          /\ _last = LRUCache(cacheLimit)._last
          /\ _store = LRUCache(cacheLimit)._store
          /\ heap = LRUCache(cacheLimit).heap
    /\ call = Call("new", undefined)
    /\ ret = RetUndefined
    /\ kept = undefined
    /\ inherited = 0
    /\ uses = <<>>
    /\ since = [k \in OwnKeys |-> Untracked]

\* The state after `new LRUCache(cacheLimit)`, cacheLimit in 1..maxLimit.
Constructed(maxLimit) == ConstructedIn(1..maxLimit)

Put(key, value) ==
    /\ Makes("put", key)
    /\ Lookup(This, key) # undefined \/ Fresh # undefined
    /\ Return(put(This, key, value, Fresh), kept, Use(key))

Purge ==
    /\ Makes("purge", undefined)
    /\ Return(purge(This), kept, uses)

Get(key) ==
    /\ Makes("get", key)
    /\ Return(get(This, key), kept, IF key \in Held(This) THEN Use(key) ELSE uses)

\* find, after which the caller keeps the reference it got (`keep`) or not.
Find(key, keep) ==
    /\ Makes("find", key)
    /\ LET r == find(This, key)
       IN Return(r, IF keep /\ r.ret.kind = "entry" THEN r.ret.ref ELSE kept, uses)

Set(key, value) ==
    /\ Makes("set", key)
    /\ Return(set(This, key, value), kept, IF key \in Held(This) THEN Use(key) ELSE uses)

Remove(key) ==
    /\ Makes("remove", key)
    /\ Return(remove(This, key), kept, uses)

RemoveAll ==
    /\ Makes("removeAll", undefined)
    /\ Return(removeAll(This), kept, uses)

ToJSON ==
    /\ Makes("toJSON", undefined)
    /\ Return(toJSON(This), kept, uses)

ToString ==
    /\ Makes("toString", undefined)
    /\ Return(toString(This), kept, uses)

KeysOp ==
    /\ Makes("keys", undefined)
    /\ Return(keys(This), kept, uses)

Init ==
    \/ scope = "own" /\ Constructed(MaxLimit)
    \/ scope = "any" /\ Constructed(MaxLimitAny)
    \/ scope = "deep" /\ Constructed(MaxLimitDeep)
    \/ scope = "kept" /\ Constructed(MaxLimitKept)
    \/ scope = "used" /\ Constructed(MaxLimitUsed)
    \/ scope = "zero" /\ ConstructedIn((-MaxNegLimit)..0)

Next ==
    \/ \E key \in ScopeKeys, value \in ScopeValues : Put(key, value)
    \/ Purge
    \/ \E key \in ScopeKeys : Get(key)
    \/ \E key \in ScopeKeys : Find(key, FALSE)
    \/ \E key \in ScopeKeys : scope = "kept" /\ Find(key, TRUE)
    \/ \E key \in ScopeKeys, value \in ScopeValues : Set(key, value)
    \/ \E key \in ScopeKeys : Remove(key)
    \/ RemoveAll
    \/ ToJSON
    \/ ToString
    \/ KeysOp

Spec == Init /\ [][Next]_vars

\* ------------------------------------------------------------ observations
\* The recency list as the code reads it: the objects from this._last along
\* next, and their keys.
Chain(c) == Walk(c.heap, c._last, Cardinality(Objects))

KeyOrder(c) == [i \in 1..Len(Chain(c)) |-> c.heap[Chain(c)[i]].key]

\* The objects from this._first along prev.
RECURSIVE WalkBack(_, _, _)
WalkBack(h, e, fuel) ==
    IF e = undefined \/ fuel = 0 THEN <<>>
    ELSE <<e>> \o WalkBack(h, h[e].prev, fuel - 1)

\* The part of the heap the cache can reach.
Linked(c) == [n \in Reach(c.heap, Roots(c)) |-> c.heap[n]]

\* The cache's own state: its fields and every object reachable from them.
Whole(c) == <<c._size, c._cacheLimit, c._first, c._last, c._store, Linked(c)>>

\* The stored value of a held key.
ValueOf(c, key) == c.heap[c._store[key]].value

\* ------------------------------------------------------------------ C1
\* C1: for a cache of positive capacity, at the end of every public operation
\* 0 <= size <= capacity.
C1_SizeWithinCapacity == _cacheLimit >= 1 => (0 <= _size /\ _size <= _cacheLimit)

\* The bound of C1 in the runs that pass ordinary keys only.
C1_OwnKeys == scope = "own" => (0 <= _size /\ _size <= _cacheLimit)

\* ------------------------------------------------------------------ C2
\* What C2 says of one put(key, value) of a key that is not held (capacity
\* >= 1).
PutOfNewKey(key, value) ==
    (Put(key, value) /\ key \notin Held(This) /\ _cacheLimit >= 1) =>
        /\ _size < _cacheLimit =>
              /\ ret'.kind = "undefined"
              /\ _size' = _size + 1
              /\ Held(This)' = Held(This) \cup {key}
        /\ _size = _cacheLimit =>
              /\ _last # undefined
              /\ ret'.kind = "entry"
              /\ ret'.ref = _last
              /\ heap'[ret'.ref].key = heap[_last].key
              /\ heap'[ret'.ref].value = heap[_last].value
              /\ Held(This)' = (Held(This) \cup {key}) \ {heap[_last].key}
              /\ _size' = _cacheLimit
        /\ _first' # undefined
        /\ _first' = _store'[key]
        /\ heap'[_first'].key = key
        /\ heap'[_first'].value = value

\* C2: a put of a key that is not held inserts it at the head; below capacity
\* nothing is evicted and size grows by one, at capacity exactly the tail is
\* evicted and returned and size stays at capacity.
C2_PutOfNewKey == [][\A key \in Keys, value \in Values : PutOfNewKey(key, value)]_vars

\* What C2 says, in the runs that pass ordinary keys only.
C2_OwnKeys ==
    [][scope = "own" => \A key \in Keys, value \in Values : PutOfNewKey(key, value)]_vars

\* ------------------------------------------------------------------ C3
\* What C3 says of one call.
RecencyIsUseOrder ==
    /\ KeyOrder(This)' = uses'
    /\ (call'.name = "purge" /\ ret'.kind = "entry") =>
          /\ uses # <<>>
          /\ heap'[ret'.ref].key = Head(uses)
    /\ (call'.name = "put" /\ ret'.kind = "entry") =>
          heap'[ret'.ref].key = Head(Use(call'.key))

\* C3: the recency list read from the tail to the head is the held keys in
\* the order of their most recent use (put, get hit, set hit), oldest first,
\* and what put evicts or purge removes is the oldest of them.
C3_RecencyIsUseOrder == [][RecencyIsUseOrder]_vars

\* What C3 says, in the runs that pass ordinary keys only.
C3_OwnKeys == [][scope = "own" => RecencyIsUseOrder]_vars

\* ------------------------------------------------------------------ C4
\* What C4 says of one put(key, value) of a held key.
PutOfHeldKey(key, value) ==
    (Put(key, value) /\ key \in Held(This)) =>
        /\ ret'.kind = "undefined"
        /\ _size' = _size
        /\ Held(This)' = Held(This)
        /\ _store' = _store
        /\ ValueOf(This, key)' = value
        /\ \A k \in Held(This) \ {key} : ValueOf(This, k)' = ValueOf(This, k)
        /\ _first' = _store[key]
        /\ Without(KeyOrder(This)', key) = Without(KeyOrder(This), key)

\* C4: a put of a held key overwrites its value and makes it the head; size,
\* the key set and the order of the others stay, nothing is evicted.
C4_PutOfHeldKey == [][\A key \in Keys, value \in Values : PutOfHeldKey(key, value)]_vars

\* What C4 says, in the runs that pass ordinary keys only.
C4_OwnKeys ==
    [][scope = "own" => \A key \in Keys, value \in Values : PutOfHeldKey(key, value)]_vars

\* ------------------------------------------------------------------ C5
\* What C5 says of one get(key) of a held key.
GetOfHeldKey(key) ==
    (Get(key) /\ key \in Held(This)) =>
        /\ ret' = RetValue(ValueOf(This, key))
        /\ _size' = _size
        /\ Held(This)' = Held(This)
        /\ _store' = _store
        /\ \A k \in Held(This) : ValueOf(This, k)' = ValueOf(This, k)
        /\ _first' = _store[key]
        /\ Without(KeyOrder(This)', key) = Without(KeyOrder(This), key)

\* C5: a get of a held key returns its value and makes it the head; the key
\* set, the values, size and the order of the others stay.
C5_GetOfHeldKey == [][\A key \in Keys : GetOfHeldKey(key)]_vars

\* What C5 says, in the runs that pass ordinary keys only.
C5_OwnKeys == [][scope = "own" => \A key \in Keys : GetOfHeldKey(key)]_vars

\* ------------------------------------------------------------------ C6
\* C6: find changes nothing of the cache: not its fields, not a field of an
\* object it can reach, not the order of uses that decides later evictions.
C6_FindChangesNothing ==
    [][\A key \in Keys, keep \in BOOLEAN :
          Find(key, keep) => (Whole(This)' = Whole(This) /\ uses' = uses)]_vars

\* A find of the tail entry of a full cache: a lookup that registered the use
\* would have moved it.
C6_Witness ==
    /\ call.name = "find" /\ call.at = "tail" /\ ret.kind = "entry"
    /\ ret.ref = _last /\ _size = _cacheLimit

\* ------------------------------------------------------------------ C7
\* C7 as the spec has it: find of a held key returns the stored value, as
\* get does, and no object that carries the entry's prev / next.
C7_FindReturnsValue ==
    (call.name = "find" /\ call.key \in Held(This)) =>
        /\ ret.kind # "entry"
        /\ ret = RetValue(ValueOf(This, call.key))

\* C7 (amended): find of a held key returns the held entry object itself, the
\* one the index maps the key to; its key is the key asked for, its value is
\* the value get returns for that key, and it is the object whose prev / next
\* link it into the recency list.
C7_FindReturnsEntry ==
    (call.name = "find" /\ call.key \in Held(This)) =>
        /\ ret.kind = "entry"
        /\ ret.ref = _store[call.key]
        /\ heap[ret.ref].key = call.key
        /\ RetValue(heap[ret.ref].value) = get(This, call.key).ret

\* find has returned an entry that is linked to two neighbours.
C7_Witness ==
    /\ call.name = "find" /\ call.key \in Held(This) /\ ret.kind = "entry"
    /\ heap[ret.ref].prev # undefined /\ heap[ret.ref].next # undefined

\* ------------------------------------------------------------------ C8
\* What C8 says of one set(key, value).
SetOfKey(key, value) ==
    Set(key, value) =>
        /\ _size' = _size
        /\ Held(This)' = Held(This)
        /\ key \notin Held(This) =>
              /\ ret'.kind = "undefined"
              /\ Whole(This)' = Whole(This)
        /\ key \in Held(This) =>
              /\ ret' = RetValue(ValueOf(This, key))
              /\ ValueOf(This, key)' = value
              /\ _first' = _store[key]
              /\ LET g == get(This, key).this
                 IN Whole(This)' = Whole([g EXCEPT !.heap[g._store[key]].value = value])

\* C8: set never changes size and never evicts; on an absent key it returns
\* "not found" and changes nothing; on a held key it returns the old value,
\* stores the new one and makes the entry the head as get and an overwrite do.
C8_SetNeverInserts == [][\A key \in Keys, value \in Values : SetOfKey(key, value)]_vars

\* What C8 says, in the runs that pass ordinary keys only.
C8_OwnKeys ==
    [][scope = "own" => \A key \in Keys, value \in Values : SetOfKey(key, value)]_vars

\* ------------------------------------------------------------------ C9
\* The recency list is a doubly linked chain of exactly _size entries from
\* this._last to this._first.
ValidChain(c) ==
    LET w == Chain(c)
        b == WalkBack(c.heap, c._first, Cardinality(Objects))
    IN /\ Len(w) = c._size
       /\ Len(b) = c._size
       /\ \A i \in 1..Len(w) : w[i] = b[Len(w) + 1 - i]
       /\ \A i, j \in 1..Len(w) : w[i] = w[j] => i = j
       /\ c._size = 0 => (c._first = undefined /\ c._last = undefined)
       /\ c._size > 0 => /\ w[1] = c._last /\ w[Len(w)] = c._first
                         /\ c.heap[c._last].prev = undefined
                         /\ c.heap[c._first].next = undefined
       /\ \A i \in 1..(Len(w) - 1) :
             c.heap[w[i]].next = w[i + 1] /\ c.heap[w[i + 1]].prev = w[i]

\* What C9 says of one remove(key) of a held key.
RemoveOfHeldKey(key) ==
    (Remove(key) /\ key \in Held(This)) =>
        /\ ret' = RetValue(ValueOf(This, key))
        /\ Held(This)' = Held(This) \ {key}
        /\ _size' = _size - 1
        /\ KeyOrder(This)' = Without(KeyOrder(This), key)
        /\ ValidChain(This)'

\* C9: remove of a held key returns its value; the key leaves Keys(), size
\* drops by one, and the other entries stay, in their order, a valid doubly
\* linked chain of length size.
C9_RemoveKeepsChain == [][\A key \in Keys : RemoveOfHeldKey(key)]_vars

\* What C9 says, in the runs that pass ordinary keys only.
C9_OwnKeys == [][scope = "own" => \A key \in Keys : RemoveOfHeldKey(key)]_vars

\* ------------------------------------------------------------------ C10
\* What C10 says of one purge().
PurgeOfTail ==
    Purge =>
        /\ (_size > 0 /\ Held(This) # {}) =>
              /\ _last # undefined
              /\ ret' = RetEntry(_last)
              /\ Held(This)' = Held(This) \ {heap[_last].key}
              /\ heap[_last].key \in Held(This)
              /\ _size' = _size - 1
              /\ _last' = heap[_last].next
              /\ (heap[_last].next = undefined) => (_first' = undefined)
              /\ KeyOrder(This)' = Tail(KeyOrder(This))
        /\ (_size = 0 /\ Held(This) = {}) =>
              /\ ret'.kind = "undefined"
              /\ _size' = 0
              /\ Whole(This)' = Whole(This)

\* C10: purge of a non-empty cache removes and returns exactly the tail, and
\* size drops by one; purge of an empty cache returns "empty" and changes
\* nothing, size staying 0.
C10_PurgeRemovesTail == [][PurgeOfTail]_vars

\* What C10 says, in the runs that pass ordinary keys only.
C10_OwnKeys == [][scope = "own" => PurgeOfTail]_vars

\* ------------------------------------------------------------------ C11
\* A call has reported "not found" and has changed nothing of the cache.
Miss == ret'.kind = "undefined" /\ Whole(This)' = Whole(This)

\* What C11 says of one get, find, set or remove of a key that is not held.
MissOfKey(key) ==
    key \notin Held(This) =>
        /\ Get(key) => Miss
        /\ \A keep \in BOOLEAN : Find(key, keep) => Miss
        /\ \A value \in Values : Set(key, value) => Miss
        /\ Remove(key) => Miss

\* C11: get, find, set and remove of a key that is not held, whatever the key
\* (the names every plain object inherits among them), return "not found" and
\* leave size, the index and the recency list as they were.
C11_MissChangesNothing == [][\A key \in Keys : MissOfKey(key)]_vars

\* What C11 says, in the runs that pass ordinary keys only.
C11_OwnKeys == [][scope = "own" => \A key \in Keys : MissOfKey(key)]_vars

\* ------------------------------------------------------------------ C12
\* What C12 says of one removeAll(): the cache is as a newly constructed one
\* of the same capacity, with everything it can reach (so that every later
\* call does what it does on a new cache), and a removeAll() that follows a
\* removeAll() changes nothing.
ClearOfCache ==
    RemoveAll =>
        /\ ret'.kind = "undefined"
        /\ Whole(This)' = Whole(LRUCache(_cacheLimit))
        /\ \A key \in Keys :
              /\ get(This', key).ret = get(LRUCache(_cacheLimit), key).ret
              /\ find(This', key).ret = find(LRUCache(_cacheLimit), key).ret
        /\ toJSON(This').ret = toJSON(LRUCache(_cacheLimit)).ret
        /\ call.name = "removeAll" => Whole(This)' = Whole(This)

C12_OwnKeys == [][scope = "own" => ClearOfCache]_vars

\* The fields removeAll() assigns are those the constructor assigns.
C12_FieldsAsConstructed ==
    call.name = "removeAll" =>
        /\ _size = LRUCache(_cacheLimit)._size
        /\ _first = LRUCache(_cacheLimit)._first
        /\ _last = LRUCache(_cacheLimit)._last
        /\ _store = LRUCache(_cacheLimit)._store

\* ------------------------------------------------------------------ C13
\* What C13 says of one toJSON(): an array of exactly size records, the held
\* entries' keys and values from the tail to the head, each held key once;
\* the records are copies (they hold a key and a value, no reference to an
\* entry), and the cache is as it was.
SnapshotOfCache ==
    ToJSON =>
        /\ ret'.kind = "array"
        /\ ret'.length = _size
        /\ Len(ret'.items) = _size
        /\ {ret'.items[i].key : i \in 1..Len(ret'.items)} = Held(This)
        /\ \A i \in 1..Len(ret'.items) :
              /\ DOMAIN ret'.items[i] = {"key", "value"}
              /\ ret'.items[i].key = KeyOrder(This)[i]
              /\ ret'.items[i].key \in Held(This)
                    => ret'.items[i].value = ValueOf(This, ret'.items[i].key)
        /\ Whole(This)' = Whole(This)
        /\ uses' = uses

\* C13: toJSON returns exactly size (key, value) records, one per held entry,
\* from the tail to the head, as copies, and leaves the cache unchanged.
C13_SnapshotIsCopy == [][SnapshotOfCache]_vars

\* What C13 says, in the runs that pass ordinary keys only.
C13_OwnKeys == [][scope = "own" => SnapshotOfCache]_vars

\* ------------------------------------------------------------------ C14
\* put(record.key, record.value) on `c` for each record of `items` in order;
\* the n-th new entry is the object `n` of the rebuilt cache's own heap.
\* `evicted` collects what the puts returned.
RECURSIVE Replay(_, _, _)
Replay(c, items, n) ==
    IF items = <<>> THEN [this |-> c, evicted |-> {}]
    ELSE LET r == put(c, Head(items).key, Head(items).value, n)
             rest == Replay(r.this, Tail(items), n + 1)
         IN [this |-> rest.this,
             evicted |-> (IF r.ret.kind = "entry" THEN {r.ret.ref} ELSE {}) \cup rest.evicted]

\* What C14 says of one cache state `c`: its export, replayed by put into a
\* new cache of the same capacity, gives the same keys, values and order, and
\* no put of the replay evicts.
RoundTrip(c) ==
    LET json == toJSON(c).ret
    IN /\ json.kind = "array"
       /\ \A i \in 1..Len(json.items) : json.items[i].key \in OwnKeys
       /\ LET r == Replay(LRUCache(c._cacheLimit), json.items, 1)
          IN /\ r.evicted = {}
             /\ Held(r.this) = Held(c)
             /\ \A k \in Held(c) : ValueOf(r.this, k) = ValueOf(c, k)
             /\ KeyOrder(r.this) = KeyOrder(c)
             /\ r.this._size = c._size

\* C14: in every reachable state, export then rebuild by put in the exported
\* order reproduces the key set, the values and the recency order, with no
\* eviction.
C14_RoundTrip == RoundTrip(This)

\* What C14 says, in the runs that pass ordinary keys only.
C14_OwnKeys == scope = "own" => RoundTrip(This)

\* ------------------------------------------------------------------ C15
\* The index and the recency list of `c` hold the same keys: those of the
\* nodes from the tail along next, those of the nodes from the head along
\* prev; the index maps each key to the list node that carries it, and no key
\* is on two nodes.
Lockstep(c) ==
    LET w == Chain(c)
        b == WalkBack(c.heap, c._first, Cardinality(Objects))
    IN /\ {c.heap[w[i]].key : i \in 1..Len(w)} = Held(c)
       /\ {c.heap[b[i]].key : i \in 1..Len(b)} = Held(c)
       /\ \A k \in Held(c) :
             /\ c.heap[c._store[k]].key = k
             /\ \E i \in 1..Len(w) : w[i] = c._store[k]
       /\ \A i, j \in 1..Len(w) : c.heap[w[i]].key = c.heap[w[j]].key => i = j

\* C15: at the end of every public operation the index and the recency list
\* are in lockstep.
C15_Lockstep == Lockstep(This)

\* What C15 says, in the runs that pass ordinary keys only.
C15_OwnKeys == scope = "own" => Lockstep(This)

\* ------------------------------------------------------------------ C16
\* The recency list of `c` is a well-formed doubly linked chain: acyclic, of
\* exactly size nodes from the tail to the head along next and from the head
\* to the tail along prev, with symmetric links, no prev at the tail, no next
\* at the head, and head and tail absent exactly when size is 0.
WellFormed(c) ==
    /\ ~Loops(c)
    /\ ValidChain(c)
    /\ \A n \in Reach(c.heap, {c._first, c._last}) :
          /\ c.heap[n].next # undefined => c.heap[c.heap[n].next].prev = n
          /\ c.heap[n].prev # undefined => c.heap[c.heap[n].prev].next = n
    /\ (c._size = 0) <=> (c._first = undefined /\ c._last = undefined)
    /\ (c._first = undefined) <=> (c._last = undefined)

\* C16: at the end of every public operation the recency list is a
\* well-formed doubly linked chain of size nodes.
C16_WellFormed == WellFormed(This)

\* What C16 says, in the runs that pass ordinary keys only.
C16_OwnKeys == scope = "own" => WellFormed(This)

\* ------------------------------------------------------------------ C17
\* What C17 says of one removeAll(): no entry the cache held before the call
\* (the one a caller got from find and still has among them) carries a prev
\* or a next after it.
ClearUnlinks ==
    RemoveAll =>
        \A k \in Held(This) :
            /\ heap'[_store[k]].prev = undefined
            /\ heap'[_store[k]].next = undefined

\* C17: after removeAll() no formerly held entry still refers to another
\* entry through prev or next.
C17_ClearUnlinks == [][ClearUnlinks]_vars

\* What C17 says, in the runs that pass ordinary keys only.
C17_OwnKeys == [][(scope = "own" \/ scope = "kept") => ClearUnlinks]_vars

\* ------------------------------------------------------------------ C18
\* What C18 says of one put(key, value) on a cache of capacity >= 1: the key
\* is held, its entry is the head, get and find of the key yield the value,
\* and what the put evicted does not carry the key.
PutIsHeld(key, value) ==
    (Put(key, value) /\ _cacheLimit >= 1) =>
        /\ key \in Held(This)'
        /\ _first' # undefined
        /\ _first' = _store'[key]
        /\ heap'[_first'].key = key
        /\ heap'[_first'].value = value
        /\ find(This', key).ret = RetEntry(_first')
        /\ get(This', key).ret = RetValue(value)
        /\ ret'.kind = "entry" => heap'[ret'.ref].key # key

\* C18: with capacity >= 1, right after put(k, v) the key k is held at the
\* head with value v, and the put has not evicted the entry it put.
C18_PutIsHeld == [][\A key \in Keys, value \in Values : PutIsHeld(key, value)]_vars

\* What C18 says, in the runs that pass ordinary keys only.
C18_OwnKeys ==
    [][scope = "own" => \A key \in Keys, value \in Values : PutIsHeld(key, value)]_vars

\* ------------------------------------------------------------------ C19
\* The keys other than `k` put after the most recent use of `k`, the call
\* just made included.
PutSince(k) ==
    (since[k].put \cup (IF call'.name = "put" THEN {call'.key} ELSE {})) \ {k}

\* A call other than remove(k), purge and removeAll has dropped the key k.
Drops(k) ==
    /\ k \in Held(This)
    /\ k \notin Held(This)'
    /\ call'.name \notin {"purge", "removeAll"}
    /\ ~(call'.name = "remove" /\ call'.key = k)

\* What C19 says of one call: a used key k is dropped only after at least
\* capacity many distinct other keys have been put since its most recent use
\* (so not by capacity - 1 puts of new keys), and a put drops k only when
\* every other held key was used more recently than k.
Survival ==
    \A k \in OwnKeys :
        /\ (_cacheLimit >= 1 /\ since[k].on /\ Drops(k))
              => Cardinality(PutSince(k)) >= _cacheLimit
        /\ (_cacheLimit >= 1 /\ call'.name = "put" /\ Drops(k))
              => (uses # <<>> /\ Head(uses) = k)

\* C19: survival bound of a used key in a cache of capacity N >= 1.
C19_Survival == [][Survival]_vars

\* The bound that holds in the runs that pass ordinary keys only: a put drops
\* the key k only when k is the least recently used of the held keys and the
\* cache is full, that is when capacity many distinct other keys (the put one
\* among them) have been used since the most recent use of k.
C19_OwnKeys ==
    [][scope = "own" =>
          \A k \in OwnKeys :
              Drops(k) => /\ call'.name = "put"
                          /\ uses # <<>> /\ Head(uses) = k
                          /\ call'.key \notin Held(This)
                          /\ Len(uses) = _cacheLimit]_vars

\* The last part of C19 alone: a put drops the key k only when every other
\* held key was used more recently than k.
C19_EvictsOldest ==
    [][\A k \in OwnKeys :
          (_cacheLimit >= 1 /\ call'.name = "put" /\ Drops(k))
              => (uses # <<>> /\ Head(uses) = k)]_vars

\* ------------------------------------------------------------------ C20
\* What C20 says of a cache of capacity <= 0 at the end of a call: the call
\* has returned (no exception), the cache is empty, a put has returned the
\* entry it was given, and get, find, set, remove and purge have returned
\* "not found" / "empty".
NoCapacity ==
    _cacheLimit <= 0 =>
        /\ ret.kind \notin {"RangeError", "loops"}
        /\ _size = 0
        /\ _first = undefined
        /\ _last = undefined
        /\ Held(This) = {}
        /\ call.name = "put" =>
              /\ ret.kind = "entry"
              /\ heap[ret.ref].key = call.key
              /\ heap[ret.ref].value \in Values
        /\ call.name \in {"get", "find", "set", "remove", "purge"} => ret.kind = "undefined"

\* C20: a cache of capacity <= 0 never faults and is empty at the end of every
\* public operation; each put evicts and returns the entry it has inserted.
C20_NoCapacity == NoCapacity

\* What C20 says, in the runs that pass ordinary keys only.
C20_OwnKeys == inherited = 0 => NoCapacity
====
